---- MODULE Spec2Model ----
(***************************************************************************)
(* State-machine model of the Futu adapters of wtpy:                       *)
(*   FutuExecuter   (src/wtpy/futu/FutuExecuter.py)                        *)
(*   FutuParser     (src/wtpy/futu/FutuParser.py)                          *)
(*   FutuDataLoader (src/wtpy/futu/FutuDataLoader.py)                      *)
(* of the backtest drivers (src/demos/cta_hk_bt/runBT.py, runDualMA.py)    *)
(* and of the strategies (src/demos/Strategies/DualMAHK.py,                *)
(* DualThrustHK.py).                                                       *)
(* The broker (OpenD gateway) is the environment: every broker call        *)
(* answers RET_OK ("ok"), a non-OK code ("err") or raises ("raise").       *)
(* Quantities are integers counted in thousandths of a share, so that the  *)
(* 0.01 threshold of set_position and the truncation of int(qty) are both  *)
(* computed as the code computes them.                                     *)
(***************************************************************************)
EXTENDS Integers, Sequences, FiniteSets, TLC

VARIABLES
  unlock_pwd,     \* FutuExecuter.__unlock_pwd__ ("" or a password)
  ex_ctx,         \* FutuExecuter.__trade_ctx__ is not None
  ex_connected,   \* FutuExecuter.__is_connected__
  positions,      \* FutuExecuter.__current_positions__ : code -> quantity
  ex_life,        \* lifecycle of the executer object (history of init()/close() calls)
  brokerPos,      \* the broker-side holding of every instrument (environment)
  lastCall,       \* what the last FutuExecuter call did
  pa_ctx,         \* FutuParser.__quote_ctx__ is not None
  pa_connected,   \* FutuParser.__is_connected__
  subscribed,     \* FutuParser.__subscribed_codes__ : set of broker codes
  code_mapping,   \* FutuParser.__code_mapping__ : engine code -> broker code
  lastOk,         \* per broker code, the last subscribe/unsubscribe the broker answered RET_OK
  pa_disc,        \* disconnect() or release() has been called
  pa_last,        \* what the last FutuParser call did
  pa_engine,      \* the engine is attached to the parser (the test of line 222 holds)
  ld_ctx,         \* FutuDataLoader.__quote_ctx__ is not None
  ld_last,        \* what the last FutuDataLoader call did
  dr_script,      \* the backtest driver that runs: "runBT" or "runDualMA"
  dr_pc,          \* the driver's position: the index of its next statement
  dr_phase,       \* "body", "finally" (the finally clause is next) or "ended"
  dr_raised,      \* the statement that raised, "none" while none did
  dr_built,       \* the FutuDataLoader object exists
  dr_inited,      \* futu_loader.init() returned True
  dr_closes,      \* the calls of futu_loader.close() the script made
  dr_del,         \* FutuDataLoader.__del__ ran
  st_kind,        \* the strategy that runs: "DualMAHK" or "StraDualThrustHK"
  st_max_pos,     \* __max_pos__, in shares
  st_lot_size,    \* __lot_size__, in shares
  st_pos,         \* the engine's position of the strategy's instrument, in shares
  st_entry,       \* StraDualThrustHK.__last_entry_price__
  st_last,        \* what the last strategy callback did
  rc_init,        \* concurrent set_position calls: the local position they start from
  rc_positions,   \* FutuExecuter.__current_positions__ during the concurrent calls
  rc_net,         \* the net quantity the concurrent calls have ordered (buys - sells)
  rc_pc,          \* per call, its position: "start", "read", "placed" or "done"
  rc_target,      \* per call, its targetPos
  rc_diff         \* per call, its local variable diff

exVars == <<unlock_pwd, ex_ctx, ex_connected, positions, ex_life, brokerPos, lastCall>>

paVars == <<pa_ctx, pa_connected, subscribed, code_mapping, lastOk, pa_disc, pa_last,
           pa_engine>>

ldVars == <<ld_ctx, ld_last>>

drVars == <<dr_script, dr_pc, dr_phase, dr_raised, dr_built, dr_inited, dr_closes, dr_del>>

stVars == <<st_kind, st_max_pos, st_lot_size, st_pos, st_entry, st_last>>

rcVars == <<rc_init, rc_positions, rc_net, rc_pc, rc_target, rc_diff>>

vars == <<exVars, paVars, ldVars, drVars, stVars, rcVars>>

\* what the calls of one adapter leave alone: the other adapters, the drivers and
\* the strategies
notEx == <<paVars, ldVars, drVars, stVars, rcVars>>

notPa == <<exVars, ldVars, drVars, stVars, rcVars>>

notLd == <<exVars, paVars, drVars, stVars, rcVars>>

\* what a driver leaves alone besides the loader it uses
notDr == <<exVars, paVars, stVars, rcVars>>

notSt == <<exVars, paVars, ldVars, drVars, rcVars>>

notRc == <<exVars, paVars, ldVars, drVars, stVars>>

----------------------------------------------------------------------------
(* Units and bounds *)

\* abs(diff) < 0.01 (set_position): 0.01 share in thousandths
Threshold == 10

\* one whole share
Share == 100 * Threshold

\* the broker refuses an order that would take a holding beyond this many shares
MaxHold == 1

Codes == {"HK.00700", "US.AAPL"}

\* targetPos arguments tried: 0, 0.005, 1, 1.5 for the first instrument, and 0, 1
\* for the second
TargetSet(code) ==
  IF code = "HK.00700" THEN {0, 5, Share, Share + (Share \div 2)} ELSE {0, Share}

\* holdings the account may start with, in shares
InitHoldings == {0, 1}

\* how the broker answers the calls of one init(): the constructor raises, or
\* unlock_trade / get_acc_list / get_position_list answer ok, non-OK or raise
InitScenarios ==
  { [ctor |-> "raise", unlock |-> "ok", acc |-> "ok", plist |-> "ok"],
    [ctor |-> "ok", unlock |-> "err", acc |-> "ok", plist |-> "ok"],
    [ctor |-> "ok", unlock |-> "raise", acc |-> "ok", plist |-> "ok"],
    [ctor |-> "ok", unlock |-> "ok", acc |-> "err", plist |-> "ok"],
    [ctor |-> "ok", unlock |-> "ok", acc |-> "raise", plist |-> "ok"],
    [ctor |-> "ok", unlock |-> "ok", acc |-> "ok", plist |-> "ok"],
    [ctor |-> "ok", unlock |-> "ok", acc |-> "ok", plist |-> "err"],
    [ctor |-> "ok", unlock |-> "ok", acc |-> "ok", plist |-> "raise"] }

\* how the broker answers the calls of one _place_order: the snapshot answers
\* non-OK, empty or raises, or it is fine and place_order answers ok, non-OK or raise
OrderScenarios ==
  { [snap |-> "err", place |-> "ok"],
    [snap |-> "empty", place |-> "ok"],
    [snap |-> "raise", place |-> "ok"],
    [snap |-> "ok", place |-> "ok"],
    [snap |-> "ok", place |-> "err"],
    [snap |-> "ok", place |-> "raise"] }

----------------------------------------------------------------------------
(* Helpers *)

Abs(x) == IF x < 0 THEN 0 - x ELSE x

\* Python int(): truncation toward zero, here of a quantity in thousandths
PyInt(q) == IF q >= 0 THEN (q \div Share) * Share ELSE 0 - (((0 - q) \div Share) * Share)

\* dict.get(k, 0)
Get(d, k) == IF k \in DOMAIN d THEN d[k] ELSE 0

\* d[k] = v
Put(d, k, v) == [x \in (DOMAIN d) \cup {k} |-> IF x = k THEN v ELSE d[x]]

EmptyDict == [x \in {} |-> 0]

BrokerCall(call, code, side, qty) == [call |-> call, code |-> code, side |-> side, qty |-> qty]

----------------------------------------------------------------------------
(* FutuExecuter *)

\* _update_positions: the rows of get_position_list are the non-zero holdings
UpdatePositions(pos, broker, resp) ==
  IF resp = "ok"
  THEN [c \in {x \in Codes : broker[x] # 0} |-> broker[c]]
  ELSE pos

\* init(): the resulting [ctx, connected, positions]; ok: get_acc_list answered
\* RET_OK; loaded: the position list was fetched too
ExecInit(ctx, connected, pos, pwd, broker, ctor, unlock, acc, plist) ==
  LET keep == [ctx |-> TRUE, connected |-> connected, positions |-> pos,
               ok |-> FALSE, loaded |-> FALSE]
  IN IF ctor = "raise" THEN [keep EXCEPT !.ctx = ctx, !.connected = FALSE]
     ELSE IF pwd # "" /\ unlock = "err" THEN keep
     ELSE IF pwd # "" /\ unlock = "raise" THEN [keep EXCEPT !.connected = FALSE]
     ELSE IF acc = "ok"
          THEN [ctx |-> TRUE, connected |-> TRUE,
                positions |-> UpdatePositions(pos, broker, plist),
                ok |-> TRUE, loaded |-> (plist = "ok")]
     ELSE IF acc = "err" THEN keep
     ELSE [keep EXCEPT !.connected = FALSE]

\* a _place_order that books the order whatever place_order answered
PlacedPositionsAlways(pos, code, qty, side, place) ==
  IF side = "BUY"
  THEN Put(pos, code, Get(pos, code) + qty)
  ELSE Put(pos, code, Get(pos, code) - qty)

\* a _place_order that books the quantity it sent, int(qty), instead of qty
PlacedPositionsSent(pos, code, qty, side, place) ==
  IF place = "ok"
  THEN IF side = "BUY"
       THEN Put(pos, code, Get(pos, code) + PyInt(qty))
       ELSE Put(pos, code, Get(pos, code) - PyInt(qty))
  ELSE pos

\* the local position map after _place_order's place_order call answered `place`
PlacedPositions(pos, code, qty, side, place) ==
  IF place = "ok"
  THEN IF side = "BUY"
       THEN Put(pos, code, Get(pos, code) + qty)
       ELSE Put(pos, code, Get(pos, code) - qty)
  ELSE pos

\* the quantity _place_order sends to the broker: qty=int(qty)
OrderQty(qty) == PyInt(qty)

\* `except Exception` of _place_order
PlaceOrderCatches == TRUE

\* `except Exception` of set_position
SetPositionCatches == TRUE

\* _place_order(code, qty, trd_side): [positions, calls, accepted, raised]
PlaceOrder(pos, code, qty, side, snap, place) ==
  LET snapCall == BrokerCall("get_market_snapshot", code, "", 0)
      orderCall == BrokerCall("place_order", code, side, OrderQty(qty))
      thrown == snap = "raise" \/ (snap = "ok" /\ place = "raise")
  IN IF snap # "ok"
     THEN [positions |-> pos, calls |-> <<snapCall>>, accepted |-> FALSE,
           raised |-> (thrown /\ ~PlaceOrderCatches)]
     ELSE [positions |-> PlacedPositions(pos, code, qty, side, place),
           calls |-> <<snapCall, orderCall>>,
           accepted |-> (place = "ok"),
           raised |-> (thrown /\ ~PlaceOrderCatches)]

\* the guard of set_position: not connected, nothing is done
SetPositionRuns(connected) == connected

\* set_position(stdCode, targetPos): [positions, calls, forwarded, accepted, raised]
SetPosition(connected, pos, code, target, snap, place) ==
  LET current_pos == Get(pos, code)
      diff == target - current_pos
      idle == [positions |-> pos, calls |-> <<>>, forwarded |-> FALSE,
               accepted |-> FALSE, raised |-> FALSE]
  IN IF ~SetPositionRuns(connected) THEN idle
     ELSE IF Abs(diff) < Threshold THEN [idle EXCEPT !.forwarded = TRUE]
     ELSE LET r == PlaceOrder(pos, code, Abs(diff), IF diff > 0 THEN "BUY" ELSE "SELL",
                              snap, place)
          IN [positions |-> r.positions, calls |-> r.calls, forwarded |-> TRUE,
              accepted |-> r.accepted, raised |-> (r.raised /\ ~SetPositionCatches)]

\* close(): the connected flag afterwards
ExecClose(ctx, connected, resp) ==
  IF ctx /\ resp = "ok" THEN FALSE ELSE connected

\* the broker's holdings after the calls of one set_position (accepted orders fill)
BrokerAfter(broker, calls, accepted) ==
  IF accepted
  THEN LET o == calls[Len(calls)]
       IN [broker EXCEPT ![o.code] = IF o.side = "BUY" THEN @ + o.qty ELSE @ - o.qty]
  ELSE broker

\* the place_order calls among the broker calls of one operation
Orders(calls) == SelectSeq(calls, LAMBDA c : c.call = "place_order")

\* the record of a call: what was asked, the adapter's state before it (pre is the
\* local position of `code`), the broker calls it made, what it changed, and
\* repeat: the call before it was an accepted set_position of the same code and target
NoCall == [op |-> "none", code |-> "", target |-> 0, wasConnected |-> FALSE,
           pre |-> 0, calls |-> <<>>, forwarded |-> FALSE,
           accepted |-> FALSE, raised |-> FALSE, mapChanged |-> FALSE,
           repeat |-> FALSE]

\* lifecycle after an init() call: a failed init() of an executer that an earlier
\* init() had connected is told apart from a failed first init()
LifeAfterInit(life, r) ==
  IF r.ok THEN (IF r.loaded THEN "init_ok" ELSE "init_noload")
  ELSE IF life \in {"init_ok", "init_noload", "reinit_failed"} THEN "reinit_failed"
  ELSE "init_failed"

ExInitState ==
  /\ unlock_pwd \in {"", "pw"}
  /\ ex_ctx = FALSE
  /\ ex_connected = FALSE
  /\ positions = EmptyDict
  /\ ex_life = "new"
  /\ brokerPos \in [Codes -> {h * Share : h \in InitHoldings}]
  /\ lastCall = NoCall

ExInit(sc) ==
  LET r == ExecInit(ex_ctx, ex_connected, positions, unlock_pwd, brokerPos,
                    sc.ctor, sc.unlock, sc.acc, sc.plist)
  IN /\ ex_ctx' = r.ctx
     /\ ex_connected' = r.connected
     /\ positions' = r.positions
     /\ ex_life' = LifeAfterInit(ex_life, r)
     /\ lastCall' = [NoCall EXCEPT !.op = "init", !.wasConnected = ex_connected,
                                   !.accepted = r.ok,
                                   !.mapChanged = (r.positions # positions)]
     /\ UNCHANGED <<unlock_pwd, brokerPos, notEx>>

ExSetPosition(code, target, sc) ==
  LET r == SetPosition(ex_connected, positions, code, target, sc.snap, sc.place)
      b == BrokerAfter(brokerPos, r.calls, r.accepted)
  IN /\ \A c \in Codes : Abs(b[c]) <= MaxHold * Share
     /\ positions' = r.positions
     /\ brokerPos' = b
     /\ lastCall' = [op |-> "set_position", code |-> code, target |-> target,
                     wasConnected |-> ex_connected, pre |-> Get(positions, code),
                     calls |-> r.calls, forwarded |-> r.forwarded,
                     accepted |-> r.accepted, raised |-> r.raised,
                     mapChanged |-> (r.positions # positions),
                     repeat |-> (/\ lastCall.op = "set_position"
                                 /\ lastCall.accepted
                                 /\ lastCall.code = code
                                 /\ lastCall.target = target)]
     /\ UNCHANGED <<unlock_pwd, ex_ctx, ex_connected, ex_life, notEx>>

ExClose(resp) ==
  /\ ex_connected' = ExecClose(ex_ctx, ex_connected, resp)
  /\ ex_life' = "closed"
  /\ lastCall' = [NoCall EXCEPT !.op = "close", !.wasConnected = ex_connected,
                                !.calls = IF ex_ctx
                                          THEN <<BrokerCall("close", "", "", 0)>>
                                          ELSE <<>>]
  /\ UNCHANGED <<unlock_pwd, ex_ctx, positions, brokerPos, notEx>>

ExNext ==
  \/ \E sc \in InitScenarios : ExInit(sc)
  \/ \E code \in Codes, sc \in OrderScenarios :
       \E target \in TargetSet(code) : ExSetPosition(code, target, sc)
  \/ \E resp \in {"ok", "raise"} : ExClose(resp)

\* the executer untouched: the state FutuExecuter.__init__ leaves
ExIdle ==
  /\ unlock_pwd = ""
  /\ ex_ctx = FALSE
  /\ ex_connected = FALSE
  /\ positions = EmptyDict
  /\ ex_life = "new"
  /\ brokerPos = [c \in Codes |-> 0]
  /\ lastCall = NoCall

----------------------------------------------------------------------------
(* FutuParser *)

\* codes handed to subscribe/unsubscribe
PCodes == {"HK.00700", "US.AAPL", ""}

Range(f) == {f[x] : x \in DOMAIN f}

\* d without the key k (del d[k])
Del(d, k) == [x \in (DOMAIN d) \ {k} |-> d[x]]

\* _convert_to_futu_code: the two formats agree, the code is returned as it is
ConvertToFutuCode(wtpy_code) == wtpy_code

\* connect(): [ctx, connected]
ParserConnect(ctx, connected, resp) ==
  IF resp = "ctor_raise" THEN [ctx |-> ctx, connected |-> FALSE]
  ELSE IF resp = "ok" THEN [ctx |-> TRUE, connected |-> TRUE]
  ELSE IF resp = "err" THEN [ctx |-> TRUE, connected |-> connected]
  ELSE [ctx |-> TRUE, connected |-> FALSE]

\* a subscribe/unsubscribe without the is_connected guard
ParserRunsAlways(connected) == TRUE

\* the guard of subscribe and of unsubscribe
ParserRuns(connected) == connected

\* what subscribe does to the two structures once the broker answered
SubscribeEffect(subs, mapping, fullCode, futu_code, resp) ==
  IF resp = "ok"
  THEN [subs |-> subs \cup {futu_code}, mapping |-> Put(mapping, fullCode, futu_code)]
  ELSE [subs |-> subs, mapping |-> mapping]

\* subscribe(fullCode): [subs, mapping, calls]
Subscribe(connected, subs, mapping, fullCode, resp) ==
  LET futu_code == ConvertToFutuCode(fullCode)
      idle == [subs |-> subs, mapping |-> mapping, calls |-> <<>>]
  IN IF ~ParserRuns(connected) THEN idle
     ELSE IF futu_code = "" THEN idle
     ELSE LET e == SubscribeEffect(subs, mapping, fullCode, futu_code, resp)
          IN [subs |-> e.subs, mapping |-> e.mapping,
              calls |-> <<BrokerCall("subscribe", futu_code, "", 0)>>]

\* an unsubscribe that forgets `del self.__code_mapping__[fullCode]`
UnsubscribeEffectKeepsMapping(subs, mapping, fullCode, futu_code, resp) ==
  IF resp = "ok"
  THEN [subs |-> subs \ {futu_code}, mapping |-> mapping]
  ELSE [subs |-> subs, mapping |-> mapping]

\* what unsubscribe does to the two structures once the broker answered
UnsubscribeEffect(subs, mapping, fullCode, futu_code, resp) ==
  IF resp = "ok"
  THEN [subs |-> subs \ {futu_code}, mapping |-> Del(mapping, fullCode)]
  ELSE [subs |-> subs, mapping |-> mapping]

\* unsubscribe(fullCode): [subs, mapping, calls]
Unsubscribe(connected, subs, mapping, fullCode, resp) ==
  LET idle == [subs |-> subs, mapping |-> mapping, calls |-> <<>>]
  IN IF ~ParserRuns(connected) THEN idle
     ELSE IF fullCode \notin DOMAIN mapping THEN idle
     ELSE LET futu_code == mapping[fullCode]
              e == UnsubscribeEffect(subs, mapping, fullCode, futu_code, resp)
          IN [subs |-> e.subs, mapping |-> e.mapping,
              calls |-> <<BrokerCall("unsubscribe", futu_code, "", 0)>>]

\* the orders in which a loop over a copy of the set may visit its elements
Visits(S) == {q \in [1..Cardinality(S) -> S] : \A i, j \in 1..Cardinality(S) : q[i] = q[j] => i = j}

\* disconnect(): [connected, calls, closed]. order: the visit of subscribed_codes;
\* failAt = 0: no call raises; failAt = k <= Len(order): the k-th unsubscribe raises;
\* failAt = Len(order) + 1: close() raises
Disconnect(ctx, connected, order, failAt) ==
  LET n == Len(order)
      unsub(k) == [i \in 1..k |-> BrokerCall("unsubscribe", order[i], "", 0)]
      close == BrokerCall("close", "", "", 0)
  IN IF ~ctx THEN [connected |-> connected, calls |-> <<>>, closed |-> FALSE]
     ELSE IF failAt = 0
          THEN [connected |-> FALSE, calls |-> Append(unsub(n), close), closed |-> TRUE]
     ELSE IF failAt <= n
          THEN [connected |-> connected, calls |-> unsub(failAt), closed |-> FALSE]
     ELSE [connected |-> connected, calls |-> Append(unsub(n), close), closed |-> FALSE]

NoBatch == [none |-> TRUE, rows |-> <<>>]

NoParserCall == [op |-> "none", code |-> "", wasConnected |-> FALSE, hadCtx |-> FALSE,
                 resp |-> "none", calls |-> <<>>, changed |-> FALSE,
                 engine |-> FALSE, batch |-> NoBatch, pushes |-> <<>>]

PaInitState ==
  /\ pa_ctx = FALSE
  /\ pa_connected = FALSE
  /\ subscribed = {}
  /\ code_mapping = [x \in {} |-> ""]
  /\ lastOk = [c \in PCodes |-> "none"]
  /\ pa_disc = FALSE
  /\ pa_last = NoParserCall
  /\ pa_engine = FALSE

PaConnect(resp) ==
  LET r == ParserConnect(pa_ctx, pa_connected, resp)
  IN /\ pa_ctx' = r.ctx
     /\ pa_connected' = r.connected
     /\ pa_last' = [NoParserCall EXCEPT !.op = "connect", !.wasConnected = pa_connected,
                                        !.hadCtx = pa_ctx, !.resp = resp]
     /\ UNCHANGED <<subscribed, code_mapping, lastOk, pa_disc, pa_engine, notPa>>

PaSubscribe(fullCode, resp) ==
  LET r == Subscribe(pa_connected, subscribed, code_mapping, fullCode, resp)
  IN /\ subscribed' = r.subs
     /\ code_mapping' = r.mapping
     /\ lastOk' = IF r.calls # <<>> /\ resp = "ok"
                  THEN [lastOk EXCEPT ![r.calls[1].code] = "sub"]
                  ELSE lastOk
     /\ pa_last' = [NoParserCall EXCEPT
                      !.op = "subscribe", !.code = fullCode, !.wasConnected = pa_connected,
                      !.hadCtx = pa_ctx,
                      !.resp = IF r.calls = <<>> THEN "none" ELSE resp,
                      !.calls = r.calls,
                      !.changed = (r.subs # subscribed \/ r.mapping # code_mapping)]
     /\ UNCHANGED <<pa_ctx, pa_connected, pa_disc, pa_engine, notPa>>

PaUnsubscribe(fullCode, resp) ==
  LET r == Unsubscribe(pa_connected, subscribed, code_mapping, fullCode, resp)
  IN /\ subscribed' = r.subs
     /\ code_mapping' = r.mapping
     /\ lastOk' = IF r.calls # <<>> /\ resp = "ok"
                  THEN [lastOk EXCEPT ![r.calls[1].code] = "unsub"]
                  ELSE lastOk
     /\ pa_last' = [NoParserCall EXCEPT
                      !.op = "unsubscribe", !.code = fullCode, !.wasConnected = pa_connected,
                      !.hadCtx = pa_ctx,
                      !.resp = IF r.calls = <<>> THEN "none" ELSE resp,
                      !.calls = r.calls,
                      !.changed = (r.subs # subscribed \/ r.mapping # code_mapping)]
     /\ UNCHANGED <<pa_ctx, pa_connected, pa_disc, pa_engine, notPa>>

\* disconnect(), and release(), which is disconnect() and a log line
PaDisconnect(op, order, failAt) ==
  LET r == Disconnect(pa_ctx, pa_connected, order, failAt)
  IN /\ pa_connected' = r.connected
     /\ pa_disc' = TRUE
     /\ pa_last' = [NoParserCall EXCEPT
                      !.op = op, !.wasConnected = pa_connected, !.hadCtx = pa_ctx,
                      !.resp = IF failAt = 0 THEN "ok" ELSE "raise",
                      !.calls = r.calls]
     /\ UNCHANGED <<pa_ctx, subscribed, code_mapping, lastOk, pa_engine, notPa>>

\* the longest quote batch the broker pushes
MaxRows == 2

\* the codes of the rows of a quote batch: two of the form EXCHANGE.CODE, one without
\* a dot
QuoteCodes == {"HK.00700", "US.AAPL", "00700"}

\* the batches handed to _on_quote_callback: None, or a frame of 0..MaxRows rows
Batches ==
  {NoBatch} \cup
  { [none |-> FALSE, rows |-> r] : r \in UNION {[1..n -> QuoteCodes] : n \in 0..MaxRows} }

\* str.split('.') on the codes of PCodes and QuoteCodes
SplitDot(code) ==
  CASE code = "HK.00700" -> <<"HK", "00700">>
    [] code = "US.AAPL" -> <<"US", "AAPL">>
    [] OTHER -> <<code>>

\* _convert_to_wtpy_code: the engine code mapped to the broker code, else the
\* broker code itself
ConvertToWtpyCode(mapping, futu_code) ==
  IF \E k \in DOMAIN mapping : mapping[k] = futu_code
  THEN CHOOSE k \in DOMAIN mapping : mapping[k] = futu_code
  ELSE futu_code

RECURSIVE QuoteTicksUntilBadRow(_, _)
\* a loop that a row without a dot ends
QuoteTicksUntilBadRow(mapping, rows) ==
  IF rows = <<>> THEN <<>>
  ELSE LET parts == SplitDot(ConvertToWtpyCode(mapping, Head(rows)))
       IN IF Len(parts) >= 2
          THEN <<[exchg |-> parts[1], code |-> parts[2]]>> \o
               QuoteTicksUntilBadRow(mapping, Tail(rows))
          ELSE <<>>

RECURSIVE QuoteTicks(_, _)
\* the loop over the rows: the ticks built, in row order; a code of fewer than two
\* parts is passed over with `continue`
QuoteTicks(mapping, rows) ==
  IF rows = <<>> THEN <<>>
  ELSE LET parts == SplitDot(ConvertToWtpyCode(mapping, Head(rows)))
       IN (IF Len(parts) >= 2
           THEN <<[exchg |-> parts[1], code |-> parts[2]]>>
           ELSE <<>>) \o QuoteTicks(mapping, Tail(rows))

\* _on_quote_callback(data): the ticks pushed to the engine
OnQuoteCallback(engine, mapping, batch) ==
  IF batch.none \/ batch.rows = <<>> THEN <<>>
  ELSE IF engine THEN QuoteTicks(mapping, batch.rows)
  ELSE <<>>

\* init(engine): the base class attaches the engine
PaInit ==
  /\ pa_engine' = TRUE
  /\ pa_last' = [NoParserCall EXCEPT !.op = "init", !.wasConnected = pa_connected,
                                     !.hadCtx = pa_ctx, !.engine = pa_engine]
  /\ UNCHANGED <<pa_ctx, pa_connected, subscribed, code_mapping, lastOk, pa_disc, notPa>>

\* the broker pushes a batch to the handler connect() registered
PaOnQuote(batch) ==
  /\ pa_ctx
  /\ pa_last' = [NoParserCall EXCEPT
                   !.op = "_on_quote_callback", !.wasConnected = pa_connected,
                   !.hadCtx = pa_ctx, !.engine = pa_engine, !.batch = batch,
                   !.pushes = OnQuoteCallback(pa_engine, code_mapping, batch)]
  /\ UNCHANGED <<pa_ctx, pa_connected, subscribed, code_mapping, lastOk, pa_disc,
                 pa_engine, notPa>>

PaNext ==
  \/ PaInit
  \/ \E batch \in Batches : PaOnQuote(batch)
  \/ \E resp \in {"ctor_raise", "ok", "err", "raise"} : PaConnect(resp)
  \/ \E c \in PCodes, resp \in {"ok", "err", "raise"} : PaSubscribe(c, resp)
  \/ \E c \in PCodes, resp \in {"ok", "err", "raise"} : PaUnsubscribe(c, resp)
  \/ \E op \in {"disconnect", "release"}, order \in Visits(subscribed),
        failAt \in 0..(Cardinality(subscribed) + 1) : PaDisconnect(op, order, failAt)

\* the parser untouched: the state FutuParser.__init__ leaves
PaIdle == PaInitState

----------------------------------------------------------------------------
(* FutuDataLoader *)

\* the longest K-line frame the broker answers with
MaxBars == 3

\* a period table without the engine-style spellings
ConvertPeriodDocumentedOnly(period) ==
  CASE period = "1m" -> "K_1M"
    [] period = "5m" -> "K_5M"
    [] period = "15m" -> "K_15M"
    [] period = "30m" -> "K_30M"
    [] period = "1h" -> "K_60M"
    [] period = "1d" -> "K_DAY"
    [] period = "1w" -> "K_WEEK"
    [] period = "1M" -> "K_MON"
    [] OTHER -> "None"

\* _convert_period: the period_mapping table; "None" is dict.get's miss
ConvertPeriod(period) ==
  CASE period \in {"m1", "1m"} -> "K_1M"
    [] period \in {"m5", "5m"} -> "K_5M"
    [] period \in {"m15", "15m"} -> "K_15M"
    [] period \in {"m30", "30m"} -> "K_30M"
    [] period \in {"h1", "1h"} -> "K_60M"
    [] period \in {"d1", "1d"} -> "K_DAY"
    [] period \in {"w1", "1w"} -> "K_WEEK"
    [] period \in {"M1", "1M"} -> "K_MON"
    [] OTHER -> "None"

\* periods handed to load_bars: a documented one, an engine one, and two others
PeriodInputs == {"1d", "m5", "", "2m"}

\* a row of the broker's K-line frame; time_key is <<year, month, day, hour, minute, second>>
KBar(k, o, h, l, c, v, t) ==
  [time_key |-> k, open |-> o, high |-> h, low |-> l, close |-> c,
   volume |-> v, turnover |-> t]

\* the rows the broker's frames are made of: a bar, a bar of an earlier day that is
\* later in the day, and a second bar with the time of the first
BarPool ==
  { KBar(<<2024, 1, 2, 9, 30, 0>>, 101, 104, 100, 103, 500, 51000),
    KBar(<<2023, 12, 29, 16, 0, 0>>, 95, 99, 94, 98, 300, 29000),
    KBar(<<2024, 1, 2, 9, 30, 0>>, 201, 204, 200, 203, 900, 181000) }

\* the frames of request_history_kline: rows, and whether there is a turnover column
Frames ==
  { [rows |-> r, hasTurnover |-> t] :
      r \in UNION {[1..n -> BarPool] : n \in 0..MaxBars}, t \in BOOLEAN }

\* strftime('%Y%m%d') as an integer
DateInt(k) == (k[1] * 100 + k[2]) * 100 + k[3]

\* strftime('%H%M%S') as an integer
ClockInt(k) == (k[4] * 100 + k[5]) * 100 + k[6]

\* strftime('%Y%m%d%H%M%S').astype('int64'): the number DateInt * 10^6 + ClockInt,
\* kept as the pair <<DateInt, ClockInt>>, which orders the same way (ClockInt < 10^6)
TimeInt(k) == <<DateInt(k), ClockInt(k)>>

TimeLeq(a, b) == a[1] < b[1] \/ (a[1] = b[1] /\ a[2] <= b[2])

\* one row of the frame _convert_to_wtpy_format builds
ConvertBar(row, hasTurnover) ==
  [time |-> TimeInt(row.time_key), date |-> DateInt(row.time_key),
   open |-> row.open, high |-> row.high, low |-> row.low, close |-> row.close,
   volume |-> row.volume,
   turnover |-> IF hasTurnover THEN row.turnover ELSE 0,
   interest |-> 0]

Injective(p) == \A i, j \in DOMAIN p : p[i] = p[j] => i = j

\* a conversion that leaves out sort_values
SortValuesNot(rows) == {rows}

\* the orders sort_values('time').reset_index(drop=True) may give: non-decreasing
\* time; the order of rows of equal time is the sort algorithm's
SortValues(rows) ==
  LET n == Len(rows)
  IN { [i \in 1..n |-> rows[p[i]]] :
         p \in {q \in [1..n -> 1..n] :
                  /\ Injective(q)
                  /\ \A i \in 1..(n - 1) : TimeLeq(rows[q[i]].time, rows[q[i + 1]].time)} }

\* _convert_to_wtpy_format(futu_data): the frames it may return
ConvertToWtpyFormat(frame) ==
  SortValues([i \in 1..Len(frame.rows) |-> ConvertBar(frame.rows[i], frame.hasTurnover)])

NoneFrame == [none |-> TRUE, rows |-> <<>>]

\* load_bars without the data.empty check
LoadBarsAnswerAny(resp, frame, out) ==
  IF resp # "ok" THEN NoneFrame ELSE [none |-> FALSE, rows |-> out]

\* what load_bars returns once request_history_kline answered (resp, frame);
\* out is the frame _convert_to_wtpy_format returned
LoadBarsAnswer(resp, frame, out) ==
  IF resp # "ok" THEN NoneFrame
  ELSE IF frame.rows = <<>> THEN NoneFrame
  ELSE [none |-> FALSE, rows |-> out]

\* load_bars(code, period, ...): [requested, result]
LoadBars(ctx, period, resp, frame, out) ==
  IF ~ctx THEN [requested |-> FALSE, result |-> NoneFrame]
  ELSE IF ConvertPeriod(period) = "None" THEN [requested |-> FALSE, result |-> NoneFrame]
  ELSE [requested |-> TRUE, result |-> LoadBarsAnswer(resp, frame, out)]

\* init(): quote_ctx afterwards (the constructor raising leaves it as it was)
LoaderInit(ctx, resp) == IF resp = "ok" THEN TRUE ELSE ctx

EmptyFrame == [rows |-> <<>>, hasTurnover |-> TRUE]

\* a row of the WTSBarStruct buffer _convert_to_wts_bars fills from a frame row
WtsBar(row) ==
  [date |-> row.date, time |-> row.time, open |-> row.open, high |-> row.high,
   low |-> row.low, close |-> row.close, vol |-> row.volume, money |-> row.turnover,
   hold |-> row.interest, settle |-> 0, diff |-> 0, reserve |-> 0]

NoBuffer == [none |-> TRUE, bars |-> <<>>]

\* _convert_to_wts_bars(df): the buffer, or None for an empty frame and when the
\* import of WTSBarStruct or the filling of a struct raises (structOk false)
ConvertToWtsBars(df, structOk) ==
  IF df = <<>> \/ ~structOk THEN NoBuffer
  ELSE [none |-> FALSE, bars |-> [i \in 1..Len(df) |-> WtsBar(df[i])]]

\* what _convert_to_wtpy_format returns: a converted frame, or the empty frame of
\* its except clause when the conversion raises (convOk false)
ConvertOrEmpty(frame, convOk) ==
  IF convOk THEN ConvertToWtpyFormat(frame) ELSE {<<>>}

\* a load_final_his_bars that reports success whatever the feeder did
FeederReturnAny(feederResp) == TRUE

\* the statement after feeder(bars_data, count) is reached only when the feeder
\* returned; when it raised, the except clause returns False
FeederReturn(feederResp) == feederResp = "ok"

\* load_final_his_bars(stdCode, period, feeder): [requested, df, feeds, ret]; feeds are
\* the feeder calls made, each with the buffer and the count handed over
LoadFinalHisBars(ctx, period, resp, frame, out, structOk, feederResp) ==
  LET lb == LoadBars(ctx, period, resp, frame, out)
      df == lb.result
      buffer == ConvertToWtsBars(df.rows, structOk)
  IN IF df.none \/ df.rows = <<>>
     THEN [requested |-> lb.requested, df |-> df, feeds |-> <<>>, ret |-> FALSE]
     ELSE IF ~buffer.none
     THEN [requested |-> lb.requested, df |-> df,
           feeds |-> <<[bars |-> buffer.bars, count |-> Len(df.rows)]>>,
           ret |-> FeederReturn(feederResp)]
     ELSE [requested |-> lb.requested, df |-> df, feeds |-> <<>>, ret |-> FALSE]

\* a load_raw_his_bars that loads nothing
LoadRawHisBarsNothing(ctx, period, resp, frame, out, structOk, feederResp) ==
  [requested |-> FALSE, df |-> NoneFrame, feeds |-> <<>>, ret |-> FALSE]

\* load_raw_his_bars(stdCode, period, feeder): the result of load_final_his_bars;
\* load_final_his_bars lets no exception out, so the except clause is never entered
LoadRawHisBars(ctx, period, resp, frame, out, structOk, feederResp) ==
  LoadFinalHisBars(ctx, period, resp, frame, out, structOk, feederResp)

NoLoaderCall == [op |-> "none", hadCtx |-> FALSE, period |-> "", resp |-> "none",
                 frame |-> EmptyFrame, requested |-> FALSE, result |-> NoneFrame,
                 convOk |-> TRUE, structOk |-> TRUE, feederResp |-> "none",
                 feeds |-> <<>>, ret |-> FALSE,
                 ktype |-> "None"]

LdInitState ==
  /\ ld_ctx = FALSE
  /\ ld_last = NoLoaderCall

LdIdle == LdInitState

LdInit(resp) ==
  /\ ld_ctx' = LoaderInit(ld_ctx, resp)
  /\ ld_last' = [NoLoaderCall EXCEPT !.op = "init", !.hadCtx = ld_ctx, !.resp = resp]
  /\ UNCHANGED notLd

\* resp = "ok" comes with a frame; the other answers carry none, and a call that
\* asks the broker nothing has no answer to choose
LdLoadBars(period, resp, frame) ==
  /\ resp # "ok" => frame = EmptyFrame
  /\ (~ld_ctx \/ ConvertPeriod(period) = "None") => (resp = "ok" /\ frame = EmptyFrame)
  /\ \E out \in ConvertToWtpyFormat(frame) :
       LET r == LoadBars(ld_ctx, period, resp, frame, out)
       IN ld_last' = [NoLoaderCall EXCEPT
                        !.op = "load_bars", !.hadCtx = ld_ctx, !.period = period,
                        !.resp = IF r.requested THEN resp ELSE "none", !.frame = frame,
                        !.requested = r.requested, !.result = r.result]
  /\ UNCHANGED <<ld_ctx, notLd>>

\* the frames the feeder methods are given: 0..MaxBars rows taken in turn from the
\* three bars of BarPool, latest first
FeedRow(i) ==
  IF i % 3 = 1 THEN KBar(<<2024, 1, 2, 9, 30, 0>>, 201, 204, 200, 203, 900, 181000)
  ELSE IF i % 3 = 2 THEN KBar(<<2024, 1, 2, 9, 30, 0>>, 101, 104, 100, 103, 500, 51000)
  ELSE KBar(<<2023, 12, 29, 16, 0, 0>>, 95, 99, 94, 98, 300, 29000)

FeedFrames ==
  { [rows |-> [i \in 1..n |-> FeedRow(i)], hasTurnover |-> TRUE] : n \in 0..MaxBars }

\* the record of a feeder-method call; an input the call never gets to is fixed
HisBarsCall(op, period, resp, frame, convOk, structOk, feederResp, r) ==
  [NoLoaderCall EXCEPT
     !.op = op, !.hadCtx = ld_ctx, !.period = period,
     !.resp = IF r.requested THEN resp ELSE "none", !.frame = frame,
     !.requested = r.requested, !.result = r.df,
     !.convOk = convOk, !.structOk = structOk, !.feederResp = feederResp,
     !.feeds = r.feeds, !.ret = r.ret]

HisBarsInputs(period, resp, frame, convOk, structOk, feederResp) ==
  LET asked == ld_ctx /\ ConvertPeriod(period) # "None"
      framed == asked /\ resp = "ok" /\ frame.rows # <<>>
      loaded == framed /\ convOk
      fed == loaded /\ structOk
  IN /\ resp # "ok" => frame = EmptyFrame
     /\ ~asked => (resp = "ok" /\ frame = EmptyFrame)
     /\ ~framed => convOk
     /\ ~loaded => structOk
     /\ feederResp = "none" <=> ~fed

LdLoadFinalHisBars(period, resp, frame, convOk, structOk, feederResp) ==
  /\ HisBarsInputs(period, resp, frame, convOk, structOk, feederResp)
  /\ \E out \in ConvertOrEmpty(frame, convOk) :
       ld_last' = HisBarsCall("load_final_his_bars", period, resp, frame, convOk,
                    structOk, feederResp,
                    LoadFinalHisBars(ld_ctx, period, resp, frame, out, structOk,
                                     feederResp))
  /\ UNCHANGED <<ld_ctx, notLd>>

LdLoadRawHisBars(period, resp, frame, convOk, structOk, feederResp) ==
  /\ HisBarsInputs(period, resp, frame, convOk, structOk, feederResp)
  /\ \E out \in ConvertOrEmpty(frame, convOk) :
       ld_last' = HisBarsCall("load_raw_his_bars", period, resp, frame, convOk,
                    structOk, feederResp,
                    LoadRawHisBars(ld_ctx, period, resp, frame, out, structOk,
                                   feederResp))
  /\ UNCHANGED <<ld_ctx, notLd>>

\* close(): the context is closed, quote_ctx stays set
LdClose(resp) ==
  /\ ld_last' = [NoLoaderCall EXCEPT !.op = "close", !.hadCtx = ld_ctx,
                                     !.resp = IF ld_ctx THEN resp ELSE "none"]
  /\ UNCHANGED <<ld_ctx, notLd>>

\* the strings handed to _convert_period: the sixteen spellings of the table and
\* others, among them the 'd' of runDualMA.py and spellings in the other case
AllPeriods ==
  {"1m", "5m", "15m", "30m", "1h", "1d", "1w", "1M",
   "m1", "m5", "m15", "m30", "h1", "d1", "w1", "M1",
   "", "d", "2m", "1H", "D1", "m60", "1min"}

\* _convert_period(period)
LdConvertPeriod(period) ==
  /\ ld_last' = [NoLoaderCall EXCEPT
                   !.op = "_convert_period", !.hadCtx = ld_ctx, !.period = period,
                   !.ktype = ConvertPeriod(period)]
  /\ UNCHANGED <<ld_ctx, notLd>>

\* the frames an answer can carry: only an OK answer to a request made carries one
AnswerFrames(period, resp, frames) ==
  IF ld_ctx /\ ConvertPeriod(period) # "None" /\ resp = "ok" THEN frames ELSE {EmptyFrame}

LdNext ==
  \/ \E period \in AllPeriods : LdConvertPeriod(period)
  \/ \E resp \in {"ok", "raise"} : LdInit(resp)
  \/ \E period \in PeriodInputs, resp \in {"ok", "err", "raise"} :
       \E frame \in AnswerFrames(period, resp, Frames) : LdLoadBars(period, resp, frame)
  \/ \E resp \in {"ok", "raise"} : LdClose(resp)
  \/ \E period \in PeriodInputs, resp \in {"ok", "err", "raise"},
        convOk \in BOOLEAN, structOk \in BOOLEAN, feederResp \in {"none", "ok", "raise"} :
       \E frame \in AnswerFrames(period, resp, FeedFrames) :
       LdLoadFinalHisBars(period, resp, frame, convOk, structOk, feederResp)
  \/ \E period \in PeriodInputs, resp \in {"ok", "err", "raise"},
        convOk \in BOOLEAN, structOk \in BOOLEAN, feederResp \in {"none", "ok", "raise"} :
       \E frame \in AnswerFrames(period, resp, FeedFrames) :
       LdLoadRawHisBars(period, resp, frame, convOk, structOk, feederResp)

----------------------------------------------------------------------------
(* The backtest drivers demos/cta_hk_bt/runBT.py and runDualMA.py *)

Stmt(name, inTry) == [name |-> name, inTry |-> inTry]

\* runBT.py, lines 49-113: the statements before the finally clause; the try
\* statement begins at line 86
RunBTBody ==
  << Stmt("WtBtEngine", FALSE), Stmt("engine.init", FALSE),
     Stmt("configBacktest", FALSE), Stmt("FutuDataLoader", FALSE),
     Stmt("futu_loader.init", FALSE), Stmt("set_extended_data_loader", FALSE),
     Stmt("commitBTConfig", FALSE), Stmt("strategy", FALSE),
     Stmt("set_cta_strategy", FALSE), Stmt("run_backtest", TRUE),
     Stmt("WtBtAnalyst", TRUE), Stmt("add_strategy", TRUE), Stmt("run_new", TRUE) >>

\* runDualMA.py main(), lines 29-86; the try statement begins at line 35
RunDualMABody ==
  << Stmt("FutuDataLoader", FALSE), Stmt("futu_loader.init", FALSE),
     Stmt("WtBtEngine", TRUE), Stmt("engine.init", TRUE),
     Stmt("configBacktest", TRUE), Stmt("set_extended_data_loader", TRUE),
     Stmt("commitBTConfig", TRUE), Stmt("strategy", TRUE),
     Stmt("set_cta_strategy", TRUE), Stmt("run_backtest", TRUE),
     Stmt("WtBtAnalyst", TRUE), Stmt("add_strategy", TRUE), Stmt("run_new", TRUE) >>

Body(script) == IF script = "runBT" THEN RunBTBody ELSE RunDualMABody

DrInitState ==
  /\ dr_script \in {"runBT", "runDualMA"}
  /\ dr_pc = 1
  /\ dr_phase = "body"
  /\ dr_raised = "none"
  /\ dr_built = FALSE
  /\ dr_inited = FALSE
  /\ dr_closes = 0
  /\ dr_del = FALSE

DrIdle ==
  /\ dr_script = "none"
  /\ dr_pc = 0
  /\ dr_phase = "ended"
  /\ dr_raised = "none"
  /\ dr_built = FALSE
  /\ dr_inited = FALSE
  /\ dr_closes = 0
  /\ dr_del = TRUE

\* where control goes after the statement at dr_pc: on to the next statement or,
\* past the last one, into the finally clause; a statement that raises leads to the
\* finally clause when it is inside the try statement and ends the script otherwise
DrAfter(outcome) ==
  LET body == Body(dr_script)
      stmt == body[dr_pc]
  IN IF outcome = "ok"
     THEN /\ dr_pc' = dr_pc + 1
          /\ dr_phase' = IF dr_pc = Len(body) THEN "finally" ELSE "body"
          /\ dr_raised' = dr_raised
     ELSE /\ dr_pc' = dr_pc
          /\ dr_phase' = IF stmt.inTry THEN "finally" ELSE "ended"
          /\ dr_raised' = stmt.name

\* a statement other than futu_loader.init(): it returns or raises
DrStep(outcome) ==
  /\ dr_phase = "body"
  /\ Body(dr_script)[dr_pc].name # "futu_loader.init"
  /\ DrAfter(outcome)
  /\ dr_built' = (dr_built \/ (Body(dr_script)[dr_pc].name = "FutuDataLoader"
                                /\ outcome = "ok"))
  /\ UNCHANGED <<dr_script, dr_inited, dr_closes, dr_del, ldVars, notDr>>

\* if futu_loader.init(): ... else: exit(1) (runBT.py 62-68), and
\* if not futu_loader.init(): return (runDualMA.py 30-32)
DrLoaderInit(resp) ==
  /\ dr_phase = "body"
  /\ Body(dr_script)[dr_pc].name = "futu_loader.init"
  /\ ld_ctx' = LoaderInit(ld_ctx, resp)
  /\ ld_last' = [NoLoaderCall EXCEPT !.op = "init", !.hadCtx = ld_ctx, !.resp = resp]
  /\ dr_inited' = (resp = "ok")
  /\ dr_pc' = dr_pc + 1
  /\ dr_phase' = IF resp = "ok" THEN "body" ELSE "ended"
  /\ UNCHANGED <<dr_script, dr_raised, dr_built, dr_closes, dr_del, notDr>>

\* the finally clause: futu_loader.close(), which lets no exception out
DrFinally(resp) ==
  /\ dr_phase = "finally"
  /\ dr_closes' = dr_closes + 1
  /\ ld_last' = [NoLoaderCall EXCEPT !.op = "close", !.hadCtx = ld_ctx,
                                     !.resp = IF ld_ctx THEN resp ELSE "none"]
  /\ dr_phase' = "ended"
  /\ UNCHANGED <<dr_script, dr_pc, dr_raised, dr_built, dr_inited, dr_del, ld_ctx,
                 notDr>>

\* __del__ of the loader object, which calls close(); the interpreter may or may
\* not run it for an object alive when the script has ended
DrDel(resp) ==
  /\ dr_phase = "ended"
  /\ dr_built
  /\ ~dr_del
  /\ dr_del' = TRUE
  /\ ld_last' = [NoLoaderCall EXCEPT !.op = "close", !.hadCtx = ld_ctx,
                                     !.resp = IF ld_ctx THEN resp ELSE "none"]
  /\ UNCHANGED <<dr_script, dr_pc, dr_phase, dr_raised, dr_built, dr_inited,
                 dr_closes, ld_ctx, notDr>>

DrNext ==
  \/ \E outcome \in {"ok", "raise"} : DrStep(outcome)
  \/ \E resp \in {"ok", "raise"} : DrLoaderInit(resp)
  \/ \E resp \in {"ok", "raise"} : DrFinally(resp)
  \/ \E resp \in {"ok", "raise"} : DrDel(resp)

----------------------------------------------------------------------------
(* The strategies demos/Strategies/DualMAHK.py and DualThrustHK.py.  The   *)
(* engine (CtaContext) is the environment: it hands over the K-lines and   *)
(* keeps the position.  Prices are integers; a moving average is kept as   *)
(* the sum it is the quotient of, and a comparison of two quotients is     *)
(* made on the cross products.                                             *)

\* ma_short and ma_long of DualMAHK
MaShort == 2

MaLong == 3

\* days, k1 (in tenths), stop_loss (in percent) as runBT.py constructs StraDualThrustHK
Days == 30

K1Tenths == 7

K2Tenths == 7

StopLossPct == 5

\* timeperiod of the moving-average filter of StraDualThrustHK
MaFilter == 20

\* (max_pos, lot_size) a DualMAHK is constructed with
MaParams == {<<50, 100>>, <<250, 100>>, <<1000, 100>>}

\* max_pos a StraDualThrustHK is constructed with; its lot size is fixed
DtMaxPos == {50, 250, 1000}

DtLotSize == 100

RECURSIVE SumTo(_, _, _)
\* s[a] + ... + s[b]
SumTo(s, a, b) == IF a > b THEN 0 ELSE s[a] + SumTo(s, a + 1, b)

RECURSIVE MaxTo(_, _, _)
MaxTo(s, a, b) ==
  IF a = b THEN s[a]
  ELSE LET m == MaxTo(s, a + 1, b) IN IF s[a] > m THEN s[a] ELSE m

RECURSIVE MinTo(_, _, _)
MinTo(s, a, b) ==
  IF a = b THEN s[a]
  ELSE LET m == MinTo(s, a + 1, b) IN IF s[a] < m THEN s[a] ELSE m

\* talib.SMA(closes, n)[-1 - back], times MaShort * MaLong
Sma(closes, n, back) ==
  LET last == Len(closes) - back
  IN SumTo(closes, last - n + 1, last) * ((MaShort * MaLong) \div n)

NoKline == [none |-> TRUE, opens |-> <<>>, highs |-> <<>>, lows |-> <<>>, closes |-> <<>>]

\* the K-lines stra_get_bars hands to DualMAHK: None, too few bars, enough bars
MaKlines ==
  {NoKline} \cup
  { [NoKline EXCEPT !.none = FALSE, !.closes = c] :
      c \in UNION {[1..n -> {1, 2}] : n \in MaLong..(MaLong + 1)} }

\* the signal of DualMAHK: 1 golden cross, -1 death cross
MaSignal(prevShort, prevLong, curShort, curLong) ==
  IF prevShort <= prevLong /\ curShort > curLong THEN 1
  ELSE IF prevShort >= prevLong /\ curShort < curLong THEN -1
  ELSE 0

EnterLong(qty) == [call |-> "stra_enter_long", qty |-> qty]

ExitLong(qty) == [call |-> "stra_exit_long", qty |-> qty]

\* an entry that does not look at the number of lots
MaEntryAnyLots(signal, maxPos, lotSize) ==
  IF signal = 1 THEN <<EnterLong((maxPos \div lotSize) * lotSize)>> ELSE <<>>

\* DualMAHK with no position
MaEntry(signal, maxPos, lotSize) ==
  LET lots == maxPos \div lotSize
  IN IF signal = 1 /\ lots > 0 THEN <<EnterLong(lots * lotSize)>> ELSE <<>>

\* an exit on either cross
MaExitOnAnyCross(pos, signal) ==
  IF signal # 0 THEN <<ExitLong(pos)>> ELSE <<>>

\* DualMAHK with a long position
MaExit(pos, signal) ==
  IF signal = -1 THEN <<ExitLong(pos)>> ELSE <<>>

\* the engine calls DualMAHK.on_calculate makes
MaOrders(pos, signal, maxPos, lotSize) ==
  IF pos = 0 THEN MaEntry(signal, maxPos, lotSize)
  ELSE IF pos > 0 THEN MaExit(pos, signal)
  ELSE <<>>

RECURSIVE EngineApply(_, _)
\* the position after the engine applied the calls exactly
EngineApply(pos, calls) ==
  IF calls = <<>> THEN pos
  ELSE EngineApply(IF Head(calls).call = "stra_enter_long"
                   THEN pos + Head(calls).qty ELSE pos - Head(calls).qty,
                   Tail(calls))

NoStCall ==
  [op |-> "none", kline |-> "none", pos |-> 0, entry |-> 0, price |-> 0,
   prevShort |-> 0, prevLong |-> 0, curShort |-> 0, curLong |-> 0,
   open |-> 0, range |-> 0, maSum |-> 0, calls |-> <<>>]

\* DualMAHK.on_calculate with the K-line the engine answers
MaCalculate(kline) ==
  IF kline.none
  THEN st_last' = [NoStCall EXCEPT !.op = "on_calculate", !.pos = st_pos] /\ st_pos' = st_pos
  ELSE IF Len(kline.closes) < MaLong + 1
  THEN /\ st_last' = [NoStCall EXCEPT !.op = "on_calculate", !.kline = "short",
                                      !.pos = st_pos]
       /\ st_pos' = st_pos
  ELSE LET closes == kline.closes
           curShort == Sma(closes, MaShort, 0)
           curLong == Sma(closes, MaLong, 0)
           prevShort == Sma(closes, MaShort, 1)
           prevLong == Sma(closes, MaLong, 1)
           signal == MaSignal(prevShort, prevLong, curShort, curLong)
           calls == MaOrders(st_pos, signal, st_max_pos, st_lot_size)
       IN /\ st_last' = [NoStCall EXCEPT
                           !.op = "on_calculate", !.kline = "ok", !.pos = st_pos,
                           !.price = closes[Len(closes)],
                           !.prevShort = prevShort, !.prevLong = prevLong,
                           !.curShort = curShort, !.curLong = curLong,
                           !.calls = calls]
          /\ st_pos' = EngineApply(st_pos, calls)

MaOnCalculate(kline) ==
  /\ st_kind = "DualMAHK"
  /\ MaCalculate(kline)
  /\ UNCHANGED <<st_kind, st_max_pos, st_lot_size, st_entry, notSt>>

\* DualMAHK.on_bar: a bar of another instrument is skipped
MaOnBar(stdCode, kline) ==
  /\ st_kind = "DualMAHK"
  /\ IF stdCode # "HK.00700"
     THEN /\ st_last' = [NoStCall EXCEPT !.op = "on_bar", !.pos = st_pos]
          /\ st_pos' = st_pos
     ELSE MaCalculate(kline)
  /\ UNCHANGED <<st_kind, st_max_pos, st_lot_size, st_entry, notSt>>

\* a K-line of n bars for StraDualThrustHK: bars at base with highs and lows 4 away,
\* and a last bar that opens at base and closes at last
DtKline(n, base, last) ==
  [none |-> FALSE,
   opens |-> [i \in 1..n |-> base],
   highs |-> [i \in 1..n |-> IF i = n /\ last > base + 4 THEN last ELSE base + 4],
   lows |-> [i \in 1..n |-> IF i = n /\ last < base - 4 THEN last ELSE base - 4],
   closes |-> [i \in 1..n |-> IF i = n THEN last ELSE base]]

\* the K-lines stra_get_bars hands to StraDualThrustHK: None, one bar too few, and
\* bars whose last close is below the lower band, between the bands, or above the
\* upper band by little or by much
DtKlines ==
  {NoKline, DtKline(Days - 1, 100, 100)} \cup
  { DtKline(Days, base, base + d) : base \in {100, 200}, d \in {-3, 0, 3, 10} }

\* the breakout signal; bands and prices times 10, the average times MaFilter
DtSignal(price, upper10, lower10, maSum) ==
  IF price * 10 > upper10 /\ price * MaFilter > maSum THEN 1
  ELSE IF price * 10 < lower10 /\ price * MaFilter < maSum THEN -1
  ELSE 0

\* a stop-loss that never overrides the signal
DtStopLossNever(pos, entry, price, signal) == signal

\* the stop-loss: the signal after lines 201-209
DtStopLoss(pos, entry, price, signal) ==
  IF pos # 0 /\ entry > 0
  THEN IF pos > 0
       THEN IF price * 100 < entry * (100 - StopLossPct) THEN 0 ELSE signal
       ELSE IF price * 100 > entry * (100 + StopLossPct) THEN 0 ELSE signal
  ELSE signal

\* an entry of max_pos shares
DtEntryMaxPos(signal, maxPos, lotSize) ==
  IF signal = 1 /\ maxPos \div lotSize > 0 THEN <<EnterLong(maxPos)>> ELSE <<>>

\* StraDualThrustHK with no position
DtEntry(signal, maxPos, lotSize) ==
  LET lots == maxPos \div lotSize
  IN IF signal = 1 /\ lots > 0 THEN <<EnterLong(lots * lotSize)>> ELSE <<>>

\* StraDualThrustHK with a long position
DtExit(pos, signal) ==
  IF signal = -1 \/ signal = 0 THEN <<ExitLong(pos)>> ELSE <<>>

\* the engine calls StraDualThrustHK.on_calculate makes
DtOrders(pos, signal, maxPos, lotSize) ==
  IF pos = 0 THEN DtEntry(signal, maxPos, lotSize)
  ELSE IF pos > 0 THEN DtExit(pos, signal)
  ELSE <<>>

\* StraDualThrustHK.on_calculate with the K-line the engine answers
DtOnCalculate(kline) ==
  /\ st_kind = "StraDualThrustHK"
  /\ IF kline.none
     THEN /\ st_last' = [NoStCall EXCEPT !.op = "on_calculate", !.pos = st_pos,
                                         !.entry = st_entry]
          /\ UNCHANGED <<st_pos, st_entry>>
     ELSE IF Len(kline.closes) < Days
     THEN /\ st_last' = [NoStCall EXCEPT !.op = "on_calculate", !.kline = "short",
                                         !.pos = st_pos, !.entry = st_entry]
          /\ UNCHANGED <<st_pos, st_entry>>
     ELSE LET n == Len(kline.closes)
              from == n - Days + 1
              hh == MaxTo(kline.highs, from, n - 1)
              ll == MinTo(kline.lows, from, n - 1)
              hc == MaxTo(kline.closes, from, n - 1)
              lc == MinTo(kline.closes, from, n - 1)
              range == IF hh - lc > hc - ll THEN hh - lc ELSE hc - ll
              open == kline.opens[n]
              price == kline.closes[n]
              maSum == IF Days >= MaFilter
                       THEN SumTo(kline.closes, n - MaFilter + 1, n)
                       ELSE price * MaFilter
              raw == DtSignal(price, open * 10 + K1Tenths * range,
                              open * 10 - K2Tenths * range, maSum)
              signal == DtStopLoss(st_pos, st_entry, price, raw)
              calls == DtOrders(st_pos, signal, st_max_pos, st_lot_size)
          IN /\ st_last' = [NoStCall EXCEPT
                              !.op = "on_calculate", !.kline = "ok", !.pos = st_pos,
                              !.entry = st_entry, !.price = price, !.open = open,
                              !.range = range, !.maSum = maSum, !.calls = calls]
             /\ st_pos' = EngineApply(st_pos, calls)
             /\ st_entry' = IF calls # <<>> /\ calls[1].call = "stra_enter_long"
                            THEN price ELSE st_entry
  /\ UNCHANGED <<st_kind, st_max_pos, st_lot_size, notSt>>

\* a strategy constructed and started flat; on_init loads the entry price the
\* strategy saved in an earlier run
StInitState ==
  /\ st_kind \in {"DualMAHK", "StraDualThrustHK"}
  /\ IF st_kind = "DualMAHK"
     THEN /\ \E params \in MaParams :
               st_max_pos = params[1] /\ st_lot_size = params[2]
          /\ st_entry = 0
     ELSE /\ st_max_pos \in DtMaxPos
          /\ st_lot_size = DtLotSize
          /\ st_entry \in {0, 110}
  /\ st_pos = 0
  /\ st_last = NoStCall

StIdle ==
  /\ st_kind = "none"
  /\ st_max_pos = 0
  /\ st_lot_size = 0
  /\ st_pos = 0
  /\ st_entry = 0
  /\ st_last = NoStCall

StNext ==
  \/ \E kline \in MaKlines : MaOnCalculate(kline)
  \/ \E stdCode \in {"HK.00700", "HK.00005"} :
       \E kline \in (IF stdCode = "HK.00700" THEN MaKlines ELSE {NoKline}) :
          MaOnBar(stdCode, kline)
  \/ \E kline \in DtKlines : DtOnCalculate(kline)

----------------------------------------------------------------------------
(* Two set_position calls of one instrument running concurrently on a      *)
(* connected FutuExecuter; the broker accepts every order.  A call reads   *)
(* the local position (line 102), places its order (lines 152-159) and     *)
(* books it (lines 166-169); the calls interleave between these steps.     *)

Calls == {1, 2}

RcCode == "HK.00700"

\* whole-share targets
RcTargets == {h * Share : h \in 0..(MaxHold + 1)}

RcInitState ==
  /\ rc_init \in {0, Share}
  /\ rc_positions = Put(EmptyDict, RcCode, rc_init)
  /\ rc_net = 0
  /\ rc_pc = [t \in Calls |-> "start"]
  /\ rc_target \in [Calls -> RcTargets]
  /\ rc_diff = [t \in Calls |-> 0]

RcIdle ==
  /\ rc_init = 0
  /\ rc_positions = EmptyDict
  /\ rc_net = 0
  /\ rc_pc = [t \in Calls |-> "done"]
  /\ rc_target = [t \in Calls |-> 0]
  /\ rc_diff = [t \in Calls |-> 0]

\* current_pos = self.__current_positions__.get(stdCode, 0.0); diff = ...; a diff
\* below the threshold ends the call
RcRead(t) ==
  /\ rc_pc[t] = "start"
  /\ LET diff == rc_target[t] - Get(rc_positions, RcCode)
     IN /\ rc_diff' = [rc_diff EXCEPT ![t] = diff]
        /\ rc_pc' = [rc_pc EXCEPT ![t] = IF Abs(diff) < Threshold THEN "done" ELSE "read"]
  /\ UNCHANGED <<rc_init, rc_positions, rc_net, rc_target, notRc>>

\* _place_order up to the answer of place_order(qty=int(qty), ...)
RcPlace(t) ==
  /\ rc_pc[t] = "read"
  /\ rc_net' = IF rc_diff[t] > 0 THEN rc_net + OrderQty(Abs(rc_diff[t]))
               ELSE rc_net - OrderQty(Abs(rc_diff[t]))
  /\ rc_pc' = [rc_pc EXCEPT ![t] = "placed"]
  /\ UNCHANGED <<rc_init, rc_positions, rc_target, rc_diff, notRc>>

\* the RET_OK branch: __current_positions__[code] = ....get(code, 0) +/- qty
RcUpdate(t) ==
  /\ rc_pc[t] = "placed"
  /\ rc_positions' = PlacedPositions(rc_positions, RcCode, Abs(rc_diff[t]),
                                     IF rc_diff[t] > 0 THEN "BUY" ELSE "SELL", "ok")
  /\ rc_pc' = [rc_pc EXCEPT ![t] = "done"]
  /\ UNCHANGED <<rc_init, rc_net, rc_target, rc_diff, notRc>>

RcNext ==
  \/ \E t \in Calls : RcRead(t)
  \/ \E t \in Calls : RcPlace(t)
  \/ \E t \in Calls : RcUpdate(t)

----------------------------------------------------------------------------
(* Specifications *)

Init == ExInitState /\ PaIdle /\ LdIdle /\ DrIdle /\ StIdle /\ RcIdle

Next == ExNext

Spec == Init /\ [][Next]_vars

ParserInit == ExIdle /\ PaInitState /\ LdIdle /\ DrIdle /\ StIdle /\ RcIdle

ParserNext == PaNext

SpecParser == ParserInit /\ [][ParserNext]_vars

LoaderInitState == ExIdle /\ PaIdle /\ LdInitState /\ DrIdle /\ StIdle /\ RcIdle

LoaderNext == LdNext

SpecLoader == LoaderInitState /\ [][LoaderNext]_vars

DriverInit == ExIdle /\ PaIdle /\ LdInitState /\ DrInitState /\ StIdle /\ RcIdle

DriverNext == DrNext

SpecDrivers == DriverInit /\ [][DriverNext]_vars

StrategyInit == ExIdle /\ PaIdle /\ LdIdle /\ DrIdle /\ StInitState /\ RcIdle

StrategyNext == StNext

SpecStrategies == StrategyInit /\ [][StrategyNext]_vars

RaceInit == ExIdle /\ PaIdle /\ LdIdle /\ DrIdle /\ StIdle /\ RcInitState

RaceNext == RcNext

SpecRace == RaceInit /\ [][RaceNext]_vars

----------------------------------------------------------------------------
(* Claims about FutuExecuter *)

\* a set_position call on a connected executer whose delta reaches the threshold
DeltaCall ==
  /\ lastCall.op = "set_position"
  /\ lastCall.wasConnected
  /\ Abs(lastCall.target - lastCall.pre) >= Threshold

\* C1: a connected set_position(stdCode, targetPos) with |targetPos - local| >= 0.01
\* issues exactly one broker order, for stdCode, BUY if targetPos is above the local
\* position and SELL otherwise, of quantity |targetPos - local|. Stated here for the
\* calls whose price snapshot the broker answered, the only ones that reach place_order.
C1_OneOrderOfTheDelta ==
  (DeltaCall /\ Len(lastCall.calls) = 2) =>
     LET o == Orders(lastCall.calls)
     IN /\ Len(o) = 1
        /\ \A i \in 1..Len(lastCall.calls) : lastCall.calls[i].code = lastCall.code
        /\ o[1].side = (IF lastCall.target > lastCall.pre THEN "BUY" ELSE "SELL")
        /\ o[1].qty = Abs(lastCall.target - lastCall.pre)

\* C2: after a successful init() followed only by set_position calls, the local
\* position of every instrument equals the broker-side holding of that instrument.
C2_LocalMirrorsBroker ==
  ex_life = "init_ok" => \A c \in Codes : Get(positions, c) = brokerPos[c]

\* C3: when _place_order ran and the snapshot answered non-OK or empty, place_order
\* answered non-OK, or a broker call raised, the local position map is unchanged and
\* nothing propagates out of set_position.
C3_FailedOrderLeavesMap ==
  (lastCall.op = "set_position" /\ lastCall.calls # <<>> /\ ~lastCall.accepted) =>
     (~lastCall.mapChanged /\ ~lastCall.raised)

C3_Witness ==
  /\ lastCall.op = "set_position"
  /\ Len(lastCall.calls) = 2
  /\ ~lastCall.accepted
  /\ lastCall.pre = Share
  /\ lastCall.target = 0
  /\ Get(positions, lastCall.code) = Share

\* C4: set_position on an executer that is not connected (never initialised, init
\* failed, or closed) issues no broker call, forwards nothing to the base class and
\* leaves the local position map unchanged.
C4_IdleUnlessConnected ==
  (lastCall.op = "set_position" /\ ex_life \in {"new", "init_failed", "closed"}) =>
     (lastCall.calls = <<>> /\ ~lastCall.forwarded /\ ~lastCall.mapChanged)

\* C5: a set_position(code, T) that immediately follows an accepted
\* set_position(code, T) places no order and changes no position entry, and a call
\* with |T - local| < 0.01 places no order.
C5_Idempotent ==
  /\ (lastCall.op = "set_position" /\ lastCall.repeat) =>
        (Orders(lastCall.calls) = <<>> /\ ~lastCall.mapChanged)
  /\ (lastCall.op = "set_position" /\ Abs(lastCall.target - lastCall.pre) < Threshold) =>
        Orders(lastCall.calls) = <<>>

C5_Witness ==
  /\ lastCall.op = "set_position"
  /\ lastCall.repeat
  /\ lastCall.wasConnected
  /\ lastCall.target = Share + (Share \div 2)
  /\ lastCall.forwarded

----------------------------------------------------------------------------
(* Claims about FutuParser *)

\* C6: as long as only connect/subscribe/unsubscribe are called, a code is in
\* subscribed_codes and in code_mapping exactly when the last broker call for it that
\* answered RET_OK was a subscribe; a subscribe or unsubscribe answered non-OK or by
\* an exception changes neither structure; subscribed_codes is the set of values of
\* code_mapping.
C6_SubscriptionsFollowBroker ==
  /\ ~pa_disc =>
       \A c \in PCodes :
          /\ (c \in subscribed) <=> (lastOk[c] = "sub")
          /\ (c \in DOMAIN code_mapping) <=> (lastOk[c] = "sub")
  /\ (pa_last.op \in {"subscribe", "unsubscribe"} /\ pa_last.resp \in {"err", "raise"})
       => ~pa_last.changed
  /\ subscribed = Range(code_mapping)

C6_Witness ==
  /\ ~pa_disc
  /\ pa_last.op = "unsubscribe"
  /\ pa_last.resp = "err"
  /\ lastOk["US.AAPL"] = "unsub"
  /\ subscribed = {"HK.00700"}

\* C7: subscribe and unsubscribe on a parser that is not connected issue no broker
\* call and change neither subscribed_codes nor code_mapping.
C7_IdleUnlessConnected ==
  (pa_last.op \in {"subscribe", "unsubscribe"} /\ ~pa_last.wasConnected) =>
     (pa_last.calls = <<>> /\ ~pa_last.changed)

C7_Witness ==
  /\ pa_last.op = "unsubscribe"
  /\ ~pa_last.wasConnected
  /\ pa_last.code \in DOMAIN code_mapping
  /\ pa_last.hadCtx

\* C8: disconnect() (and release()) on a parser that has a quote context sends an
\* unsubscribe for every code of subscribed_codes before it closes the context, and
\* is_connected is false when it returns.
C8_DisconnectUnsubscribesAll ==
  (pa_last.op \in {"disconnect", "release"} /\ pa_last.hadCtx) =>
     /\ ~pa_connected
     /\ \E k \in 1..Len(pa_last.calls) :
          /\ pa_last.calls[k].call = "close"
          /\ \A c \in subscribed :
               \E i \in 1..(k - 1) :
                  pa_last.calls[i].call = "unsubscribe" /\ pa_last.calls[i].code = c

----------------------------------------------------------------------------
(* Claims about FutuDataLoader *)

C11_FeederOnceOnSuccess ==
  ld_last.op = "load_final_his_bars" =>
    LET noBars == ld_last.result.none \/ ld_last.result.rows = <<>>
        structFailed == ~ld_last.structOk
    IN /\ Len(ld_last.feeds) <= 1
       /\ ld_last.ret <=> (/\ Len(ld_last.feeds) = 1
                           /\ ld_last.feeds[1].count = Len(ld_last.result.rows)
                           /\ ld_last.feeds[1].count = Len(ld_last.frame.rows)
                           /\ Len(ld_last.feeds[1].bars) = ld_last.feeds[1].count
                           /\ ld_last.feederResp = "ok")
       /\ (noBars \/ structFailed) => (~ld_last.ret /\ ld_last.feeds = <<>>)
       /\ ld_last.feeds = <<>> <=> (noBars \/ structFailed)

\* two bars were loaded and fed, and the call returned True
C11_Witness ==
  /\ ld_last.op = "load_final_his_bars"
  /\ ld_last.ret
  /\ Len(ld_last.result.rows) = 2
  /\ Len(ld_last.feeds) = 1
  /\ ld_last.feeds[1].count = 2
  /\ ld_last.feederResp = "ok"

DocPeriods == <<"1m", "5m", "15m", "30m", "1h", "1d", "1w", "1M">>

EnginePeriods == <<"m1", "m5", "m15", "m30", "h1", "d1", "w1", "M1">>

\* the interval (1..8) a string spells, 0 when it spells none
IntervalOf(p) ==
  IF \E i \in DOMAIN DocPeriods : DocPeriods[i] = p \/ EnginePeriods[i] = p
  THEN CHOOSE i \in DOMAIN DocPeriods : DocPeriods[i] = p \/ EnginePeriods[i] = p
  ELSE 0

\* C13: _convert_period answers a K-line type for each of the eight documented and
\* the eight engine-style spellings and None for any other string; two spellings
\* get the same type exactly when they spell the same interval.
C13_PeriodTable ==
  ld_last.op = "_convert_period" =>
    LET i == IntervalOf(ld_last.period)
    IN /\ (i # 0) <=> (ld_last.ktype # "None")
       /\ \A q \in AllPeriods :
            (i # 0 /\ IntervalOf(q) # 0) =>
               ((i = IntervalOf(q)) <=> (ld_last.ktype = ConvertPeriod(q)))

\* 'h1' gets the type of '1h', which is not the type of '1d'
C13_Witness ==
  /\ ld_last.op = "_convert_period"
  /\ ld_last.period = "h1"
  /\ ld_last.ktype = "K_60M"
  /\ ld_last.ktype = ConvertPeriod("1h")
  /\ ld_last.ktype # ConvertPeriod("1d")

----------------------------------------------------------------------------
(* Claims about the backtest drivers *)

\* C14: in both backtest drivers, once futu_loader.init() has returned True the
\* script calls futu_loader.close() before it ends, on every path, a raising
\* statement included.
C14_CloseBeforeEnd ==
  (dr_phase = "ended" /\ dr_inited) => dr_closes >= 1

----------------------------------------------------------------------------
(* Claims about the strategies *)

\* a run of DualMAHK.on_calculate
MaRun == st_kind = "DualMAHK" /\ st_last.op = "on_calculate"

\* the averages of the run: previous short <= previous long and short > long
GoldenCross ==
  /\ st_last.kline = "ok"
  /\ st_last.prevShort <= st_last.prevLong
  /\ st_last.curShort > st_last.curLong

\* previous short >= previous long and short < long
DeathCross ==
  /\ st_last.kline = "ok"
  /\ st_last.prevShort >= st_last.prevLong
  /\ st_last.curShort < st_last.curLong

CallsOf(name) == {i \in DOMAIN st_last.calls : st_last.calls[i].call = name}

\* C15: DualMAHK.on_calculate calls stra_enter_long exactly when the position is 0,
\* the averages make a golden cross and max_pos // lot_size > 0; it does so once,
\* for (max_pos // lot_size) * lot_size shares; otherwise it makes no entry.
C15_EnterOnGoldenCross ==
  MaRun =>
    LET lots == st_max_pos \div st_lot_size
    IN IF st_last.pos = 0 /\ GoldenCross /\ lots > 0
       THEN st_last.calls = <<EnterLong(lots * st_lot_size)>>
       ELSE CallsOf("stra_enter_long") = {}

\* a golden cross out of equal averages, flat, max_pos 250: 200 shares are bought
C15_Witness ==
  /\ MaRun
  /\ st_last.pos = 0
  /\ st_max_pos = 250
  /\ st_last.prevShort = st_last.prevLong
  /\ st_last.curShort > st_last.curLong
  /\ st_last.calls = <<EnterLong(200)>>

\* C16: DualMAHK.on_calculate calls stra_exit_long exactly when the position is
\* positive and the averages make a death cross; it exits the whole position; a
\* golden cross while long and a death cross while flat cause no order.
C16_ExitOnDeathCross ==
  MaRun =>
    /\ IF st_last.pos > 0 /\ DeathCross
       THEN st_last.calls = <<ExitLong(st_last.pos)>>
       ELSE CallsOf("stra_exit_long") = {}
    /\ (st_last.pos > 0 /\ GoldenCross) => st_last.calls = <<>>
    /\ (st_last.pos = 0 /\ DeathCross) => st_last.calls = <<>>

\* a death cross while 1000 shares long: all 1000 are sold
C16_Witness ==
  /\ MaRun
  /\ st_last.pos = 1000
  /\ DeathCross
  /\ st_last.calls = <<ExitLong(1000)>>

StopLossCase ==
  /\ st_kind = "StraDualThrustHK"
  /\ st_last.op = "on_calculate"
  /\ st_last.kline = "ok"
  /\ st_last.pos > 0
  /\ st_last.entry > 0
  /\ st_last.price * 100 < st_last.entry * (100 - StopLossPct)

\* C18: whenever StraDualThrustHK.on_calculate runs with a long position, an entry
\* price > 0 and the current price below entry price * (1 - stop_loss), it calls
\* stra_exit_long for the whole position in that call, breakout signal or not.
C18_StopLossExits ==
  StopLossCase => st_last.calls = <<ExitLong(st_last.pos)>>

\* the stop-loss on a bar that breaks out above the upper band and the average
C18_Witness ==
  /\ StopLossCase
  /\ st_last.price * 10 > st_last.open * 10 + K1Tenths * st_last.range
  /\ st_last.price * MaFilter > st_last.maSum
  /\ st_last.calls = <<ExitLong(st_last.pos)>>

----------------------------------------------------------------------------
(* Claims about concurrent set_position calls *)

\* C19: when two set_position calls of one instrument have run concurrently on a
\* connected executer, whatever the interleaving of their reads, orders and
\* updates, the net quantity ordered is the target of the call that came last minus
\* the initial local position, and the final local position is one of the two
\* targets.  (Whichever of the two calls is taken as the last.)
C19_ConcurrentSetPosition ==
  (\A t \in Calls : rc_pc[t] = "done") =>
    /\ \E t \in Calls : rc_net = rc_target[t] - rc_init
    /\ \E t \in Calls : Get(rc_positions, RcCode) = rc_target[t]

----------------------------------------------------------------------------
(* Claims about the quote callback of FutuParser *)

\* the codes of the form EXCHANGE.CODE
DottedCodes == {"HK.00700", "US.AAPL"}

\* the exchange and code parts of a dotted code
PartsOf(code) ==
  IF code = "HK.00700" THEN [exchg |-> "HK", code |-> "00700"]
  ELSE [exchg |-> "US", code |-> "AAPL"]

====
